---- MODULE Spec2Model ----
(***************************************************************************)
(* Pastebin Lite (src/index.js): the paste lifecycle over a key-value      *)
(* store.  A paste is created by POST /api/pastes (createPaste) and read   *)
(* by GET /api/pastes/:id and GET /p/:id.  Each read handler is a          *)
(* kv.get, a local decision, then a kv.del or a kv.set; handlers of        *)
(* different requests interleave at these store operations.                *)
(***************************************************************************)
EXTENDS Integers, Sequences, FiniteSets, TLC

\* ------------------------------------------------------------------ bounds
NumProcs == 4        \* read requests handled in one behaviour
MaxCreates == 1      \* pastes created in one behaviour
MaxTTL == 1          \* largest ttl_seconds passed to createPaste
MaxMaxViews == 2     \* largest max_views passed to createPaste
StartTime == 1       \* earliest clock value (ms)

NumPairProcs == 2    \* read requests of the two-paste specification

Procs == 1..NumProcs
Ids == 1..MaxCreates
\* the identifiers nanoid issues in one behaviour
MaxIds == MaxCreates + 1

\* ------------------------------------------------------------ JavaScript values
Undefined == [t |-> "undefined"]
Null == [t |-> "null"]
Num(n) == [t |-> "number", v |-> n]
\* the non-integer number n + 0.5
NonInt(n) == [t |-> "number", v |-> n, frac |-> 5]
Str(s) == [t |-> "string", s |-> s]

NumberIsInteger(x) == x.t = "number" /\ "frac" \notin DOMAIN x

\* !x for the values above
Falsy(x) ==
    \/ x.t \in {"undefined", "null"}
    \/ x.t = "string" /\ x.s = <<>>
    \/ x.t = "number" /\ x.v = 0 /\ "frac" \notin DOMAIN x

IsSpace(c) == c = " "

RECURSIVE TrimStart(_)
TrimStart(s) ==
    IF s = <<>> THEN <<>>
    ELSE IF IsSpace(Head(s)) THEN TrimStart(Tail(s)) ELSE s

RECURSIVE TrimEnd(_)
TrimEnd(s) ==
    IF s = <<>> THEN <<>>
    ELSE IF IsSpace(s[Len(s)]) THEN TrimEnd(SubSeq(s, 1, Len(s) - 1)) ELSE s

\* String.prototype.trim
trim(s) == TrimEnd(TrimStart(s))

\* content.replace(/</g, "&lt;")
RECURSIVE replaceLt(_)
replaceLt(s) ==
    IF s = <<>> THEN <<>>
    ELSE (IF Head(s) = "<" THEN <<"&", "l", "t", ";">> ELSE <<Head(s)>>)
         \o replaceLt(Tail(s))

\* new Date(ms).toISOString() for a time within the first day of the epoch:
\* <<year, month, day, hours, minutes, seconds, milliseconds>>
toISOString(ms) ==
    <<1970, 1, 1, ms \div 3600000, (ms \div 60000) % 60, (ms \div 1000) % 60,
      ms % 1000>>

MathMax(a, b) == IF a >= b THEN a ELSE b

\* ------------------------------------------------------------------- state
VARIABLES
    store,       \* the KV store: a function from the stored ids to records
    nIds,        \* number of identifiers nanoid has issued
    createReq,   \* the last POST /api/pastes request: body and clock
    createResp,  \* its response
    pc,          \* per read request: "idle", "del", "set", "done"
    req,         \* per read request: route, id, clock
    paste,       \* per read request: the handler's local `paste`
    resp,        \* per read request: the response sent
    exhausted    \* observer: the ids whose stored record has reached its limit

vars == <<store, nIds, createReq, createResp, pc, req, paste, resp, exhausted>>

NoReq == [route |-> "none", id |-> 0, now |-> 0]
NoResp == [status |-> 0]

\* ---------------------------------------------------------------- KV store
kvGet(s, id) == IF id \in DOMAIN s THEN s[id] ELSE Null

kvSet(s, id, rec) == [k \in DOMAIN s \cup {id} |-> IF k = id THEN rec ELSE s[k]]

\* a del that removes nothing
kvDel_Keep(s, id) == s

kvDel(s, id) == [k \in DOMAIN s \ {id} |-> s[k]]

\* the observer's update, part of every step
Observe ==
    exhausted' = exhausted \cup {id \in DOMAIN store' :
                                    /\ store'[id].max_views # Null
                                    /\ store'[id].views >= store'[id].max_views.v}

\* ------------------------------------------------------------------- clock
\* now(req): the x-test-now-ms header or Date.now(); an input of each request
Clock ==
    {StartTime}
    \cup {StartTime + T * 1000 - 1 : T \in 1..MaxTTL}
    \cup {StartTime + T * 1000 : T \in 1..MaxTTL}

\* ------------------------------------------------------------------ create
\* a validation that lets the counts 0 through
ValidationError_Zero(data) ==
    IF Falsy(data.content) \/ data.content.t # "string"
       \/ trim(data.content.s) = <<>>
    THEN "Invalid content"
    ELSE IF data.ttl_seconds # Undefined
            /\ (~NumberIsInteger(data.ttl_seconds) \/ data.ttl_seconds.v < 0)
    THEN "Invalid ttl_seconds"
    ELSE IF data.max_views # Undefined
            /\ (~NumberIsInteger(data.max_views) \/ data.max_views.v < 0)
    THEN "Invalid max_views"
    ELSE ""

\* a validation that checks max_views before ttl_seconds
ValidationError_Swapped(data) ==
    IF Falsy(data.content) \/ data.content.t # "string"
       \/ trim(data.content.s) = <<>>
    THEN "Invalid content"
    ELSE IF data.max_views # Undefined
            /\ (~NumberIsInteger(data.max_views) \/ data.max_views.v < 1)
    THEN "Invalid max_views"
    ELSE IF data.ttl_seconds # Undefined
            /\ (~NumberIsInteger(data.ttl_seconds) \/ data.ttl_seconds.v < 1)
    THEN "Invalid ttl_seconds"
    ELSE ""

\* the message of the Error createPaste throws, or "" when validation passes
ValidationError(data) ==
    IF Falsy(data.content) \/ data.content.t # "string"
       \/ trim(data.content.s) = <<>>
    THEN "Invalid content"
    ELSE IF data.ttl_seconds # Undefined
            /\ (~NumberIsInteger(data.ttl_seconds) \/ data.ttl_seconds.v < 1)
    THEN "Invalid ttl_seconds"
    ELSE IF data.max_views # Undefined
            /\ (~NumberIsInteger(data.max_views) \/ data.max_views.v < 1)
    THEN "Invalid max_views"
    ELSE ""

\* x ?? null
OrNull(x) == IF x = Undefined \/ x = Null THEN Null ELSE x

\* a record that stores the trimmed content
NewRecord_Trimmed(data, t) ==
    [content |-> Str(trim(data.content.s)),
     createdAt |-> t,
     ttl_seconds |-> OrNull(data.ttl_seconds),
     max_views |-> OrNull(data.max_views),
     views |-> 0]

NewRecord(data, t) ==
    [content |-> data.content,
     createdAt |-> t,
     ttl_seconds |-> OrNull(data.ttl_seconds),
     max_views |-> OrNull(data.max_views),
     views |-> 0]

\* nanoid(8): an identifier not issued before
nanoid == nIds + 1

\* a create that stores the record before max_views is validated
createPaste_Early(data, t) ==
    /\ nIds < MaxIds
    /\ createReq' = [data |-> data, now |-> t]
    /\ IF ValidationError(data) \notin {"", "Invalid max_views"}
       THEN /\ createResp' = [status |-> 400, error |-> ValidationError(data)]
            /\ UNCHANGED <<store, nIds>>
       ELSE /\ store' = kvSet(store, nanoid, NewRecord(data, t))
            /\ nIds' = nIds + 1
            /\ createResp' =
                   IF ValidationError(data) = ""
                   THEN [status |-> 201, id |-> nanoid]
                   ELSE [status |-> 400, error |-> ValidationError(data)]
    /\ UNCHANGED <<pc, req, paste, resp>>
    /\ Observe

\* POST /api/pastes: createPaste(req.body, req), then 201 with the id, or 400
\* with the message of the thrown Error
createPaste(data, t) ==
    /\ nIds < MaxIds
    /\ createReq' = [data |-> data, now |-> t]
    /\ IF ValidationError(data) # ""
       THEN /\ createResp' = [status |-> 400, error |-> ValidationError(data)]
            /\ UNCHANGED <<store, nIds>>
       ELSE /\ store' = kvSet(store, nanoid, NewRecord(data, t))
            /\ nIds' = nIds + 1
            /\ createResp' = [status |-> 201, id |-> nanoid]
    /\ UNCHANGED <<pc, req, paste, resp>>
    /\ Observe

\* ------------------------------------------------------------ read: shared
\* an expiry test that lets the boundary instant through
IsExpired_Late(p, t) ==
    /\ p.ttl_seconds # Null
    /\ t > p.createdAt + p.ttl_seconds.v * 1000

IsExpired(p, t) ==
    /\ p.ttl_seconds # Null
    /\ t >= p.createdAt + p.ttl_seconds.v * 1000

\* a limit test that is off by one
ViewLimitExceeded_Off(p) == p.max_views # Null /\ p.views > p.max_views.v

ViewLimitExceeded(p) == p.max_views # Null /\ p.views >= p.max_views.v

\* requests are taken in the order of their slots: the slots are
\* interchangeable, so this loses no behaviour
MayBegin(p) == pc[p] = "idle" /\ (IF p = 1 THEN TRUE ELSE pc[p - 1] # "idle")

\* ------------------------------------------------ GET /api/pastes/:id
\* one message for every reason
FetchNotFound_Collapsed(msg) == [status |-> 404, json |-> [error |-> "Not found"]]

FetchNotFound(msg) == [status |-> 404, json |-> [error |-> msg]]

\* remaining_views computed from the views read, not the views written
FetchOk_Pre(p) ==
    [status |-> 200,
     json |-> [content |-> p.content,
               remaining_views |->
                   IF p.max_views = Null THEN Null
                   ELSE Num(MathMax(0, p.max_views.v - (p.views - 1))),
               expires_at |->
                   IF p.ttl_seconds = Null THEN Null
                   ELSE Str(toISOString(p.createdAt + p.ttl_seconds.v * 1000))]]

\* a remaining_views computed without the test for null (null counts as 0)
FetchOk_NoNull(p) ==
    [status |-> 200,
     json |-> [content |-> p.content,
               remaining_views |->
                   Num(MathMax(0, (IF p.max_views = Null THEN 0
                                   ELSE p.max_views.v) - p.views)),
               expires_at |->
                   IF p.ttl_seconds = Null THEN Null
                   ELSE Str(toISOString(p.createdAt + p.ttl_seconds.v * 1000))]]

\* an expires_at that leaves createdAt out
FetchOk_NoCreated(p) ==
    [status |-> 200,
     json |-> [content |-> p.content,
               remaining_views |->
                   IF p.max_views = Null THEN Null
                   ELSE Num(MathMax(0, p.max_views.v - p.views)),
               expires_at |->
                   IF p.ttl_seconds = Null THEN Null
                   ELSE Str(toISOString(p.ttl_seconds.v * 1000))]]

FetchOk(p) ==
    [status |-> 200,
     json |-> [content |-> p.content,
               remaining_views |->
                   IF p.max_views = Null THEN Null
                   ELSE Num(MathMax(0, p.max_views.v - p.views)),
               expires_at |->
                   IF p.ttl_seconds = Null THEN Null
                   ELSE Str(toISOString(p.createdAt + p.ttl_seconds.v * 1000))]]

\* a read that also deletes the record it finds exhausted
FetchGet_Purge(p, id, t) ==
    /\ MayBegin(p)
    /\ req' = [req EXCEPT ![p] = [route |-> "api", id |-> id, now |-> t]]
    /\ LET got == kvGet(store, id) IN
       IF got = Null
       THEN /\ paste' = [paste EXCEPT ![p] = got]
            /\ resp' = [resp EXCEPT ![p] = FetchNotFound("Not found")]
            /\ pc' = [pc EXCEPT ![p] = "done"]
       ELSE IF IsExpired(got, t) \/ ViewLimitExceeded(got)
       THEN /\ paste' = [paste EXCEPT ![p] = got]
            /\ pc' = [pc EXCEPT ![p] = "del"]
            /\ UNCHANGED resp
       ELSE /\ paste' = [paste EXCEPT ![p] = [got EXCEPT !.views = @ + 1]]
            /\ pc' = [pc EXCEPT ![p] = "set"]
            /\ UNCHANGED resp
    /\ UNCHANGED <<store, nIds, createReq, createResp>>
    /\ Observe

\* kv.get and the checks that follow it, up to the next store operation
FetchGet(p, id, t) ==
    /\ MayBegin(p)
    /\ req' = [req EXCEPT ![p] = [route |-> "api", id |-> id, now |-> t]]
    /\ LET got == kvGet(store, id) IN
       IF got = Null
       THEN /\ paste' = [paste EXCEPT ![p] = got]
            /\ resp' = [resp EXCEPT ![p] = FetchNotFound("Not found")]
            /\ pc' = [pc EXCEPT ![p] = "done"]
       ELSE IF IsExpired(got, t)
       THEN /\ paste' = [paste EXCEPT ![p] = got]
            /\ pc' = [pc EXCEPT ![p] = "del"]
            /\ UNCHANGED resp
       ELSE IF ViewLimitExceeded(got)
       THEN /\ paste' = [paste EXCEPT ![p] = got]
            /\ resp' = [resp EXCEPT ![p] = FetchNotFound("View limit exceeded")]
            /\ pc' = [pc EXCEPT ![p] = "done"]
       ELSE /\ paste' = [paste EXCEPT ![p] = [got EXCEPT !.views = @ + 1]]
            /\ pc' = [pc EXCEPT ![p] = "set"]
            /\ UNCHANGED resp
    /\ UNCHANGED <<store, nIds, createReq, createResp>>
    /\ Observe

\* kv.del(key), then 404 "Expired"
FetchDel(p) ==
    /\ pc[p] = "del" /\ req[p].route = "api"
    /\ store' = kvDel(store, req[p].id)
    /\ resp' = [resp EXCEPT ![p] = FetchNotFound("Expired")]
    /\ pc' = [pc EXCEPT ![p] = "done"]
    /\ UNCHANGED <<nIds, createReq, createResp, req, paste>>
    /\ Observe

\* a set that is conditional on the stored views being the views read
FetchSet_Cas(p) ==
    /\ pc[p] = "set" /\ req[p].route = "api"
    /\ IF req[p].id \in DOMAIN store /\ store[req[p].id].views = paste[p].views - 1
       THEN /\ store' = kvSet(store, req[p].id, paste[p])
            /\ resp' = [resp EXCEPT ![p] = FetchOk(paste[p])]
       ELSE /\ resp' = [resp EXCEPT ![p] = FetchNotFound("Not found")]
            /\ UNCHANGED store
    /\ pc' = [pc EXCEPT ![p] = "done"]
    /\ UNCHANGED <<nIds, createReq, createResp, req, paste>>
    /\ Observe

\* kv.set(key, paste), then 200 with the paste
FetchSet(p) ==
    /\ pc[p] = "set" /\ req[p].route = "api"
    /\ store' = kvSet(store, req[p].id, paste[p])
    /\ resp' = [resp EXCEPT ![p] = FetchOk(paste[p])]
    /\ pc' = [pc EXCEPT ![p] = "done"]
    /\ UNCHANGED <<nIds, createReq, createResp, req, paste>>
    /\ Observe

\* ------------------------------------------------------- GET /p/:id
ViewNotFound(msg) == [status |-> 404, body |-> msg]

ViewOk(p) == [status |-> 200, body |-> [pre |-> replaceLt(p.content.s)]]

\* a read that makes the view-limit check before the TTL check
ViewGet_LimitFirst(p, id, t) ==
    /\ MayBegin(p)
    /\ req' = [req EXCEPT ![p] = [route |-> "html", id |-> id, now |-> t]]
    /\ LET got == kvGet(store, id) IN
       IF got = Null
       THEN /\ paste' = [paste EXCEPT ![p] = got]
            /\ resp' = [resp EXCEPT ![p] = ViewNotFound("Not found")]
            /\ pc' = [pc EXCEPT ![p] = "done"]
       ELSE IF ViewLimitExceeded(got)
       THEN /\ paste' = [paste EXCEPT ![p] = got]
            /\ resp' = [resp EXCEPT ![p] = ViewNotFound("View limit exceeded")]
            /\ pc' = [pc EXCEPT ![p] = "done"]
       ELSE IF IsExpired(got, t)
       THEN /\ paste' = [paste EXCEPT ![p] = got]
            /\ pc' = [pc EXCEPT ![p] = "del"]
            /\ UNCHANGED resp
       ELSE /\ paste' = [paste EXCEPT ![p] = [got EXCEPT !.views = @ + 1]]
            /\ pc' = [pc EXCEPT ![p] = "set"]
            /\ UNCHANGED resp
    /\ UNCHANGED <<store, nIds, createReq, createResp>>
    /\ Observe

\* a page view that leaves the counter of its copy alone
ViewGet_NoCount(p, id, t) ==
    /\ MayBegin(p)
    /\ req' = [req EXCEPT ![p] = [route |-> "html", id |-> id, now |-> t]]
    /\ LET got == kvGet(store, id) IN
       IF got = Null
       THEN /\ paste' = [paste EXCEPT ![p] = got]
            /\ resp' = [resp EXCEPT ![p] = ViewNotFound("Not found")]
            /\ pc' = [pc EXCEPT ![p] = "done"]
       ELSE IF IsExpired(got, t)
       THEN /\ paste' = [paste EXCEPT ![p] = got]
            /\ pc' = [pc EXCEPT ![p] = "del"]
            /\ UNCHANGED resp
       ELSE IF ViewLimitExceeded(got)
       THEN /\ paste' = [paste EXCEPT ![p] = got]
            /\ resp' = [resp EXCEPT ![p] = ViewNotFound("View limit exceeded")]
            /\ pc' = [pc EXCEPT ![p] = "done"]
       ELSE /\ paste' = [paste EXCEPT ![p] = got]
            /\ pc' = [pc EXCEPT ![p] = "set"]
            /\ UNCHANGED resp
    /\ UNCHANGED <<store, nIds, createReq, createResp>>
    /\ Observe

ViewGet(p, id, t) ==
    /\ MayBegin(p)
    /\ req' = [req EXCEPT ![p] = [route |-> "html", id |-> id, now |-> t]]
    /\ LET got == kvGet(store, id) IN
       IF got = Null
       THEN /\ paste' = [paste EXCEPT ![p] = got]
            /\ resp' = [resp EXCEPT ![p] = ViewNotFound("Not found")]
            /\ pc' = [pc EXCEPT ![p] = "done"]
       ELSE IF IsExpired(got, t)
       THEN /\ paste' = [paste EXCEPT ![p] = got]
            /\ pc' = [pc EXCEPT ![p] = "del"]
            /\ UNCHANGED resp
       ELSE IF ViewLimitExceeded(got)
       THEN /\ paste' = [paste EXCEPT ![p] = got]
            /\ resp' = [resp EXCEPT ![p] = ViewNotFound("View limit exceeded")]
            /\ pc' = [pc EXCEPT ![p] = "done"]
       ELSE /\ paste' = [paste EXCEPT ![p] = [got EXCEPT !.views = @ + 1]]
            /\ pc' = [pc EXCEPT ![p] = "set"]
            /\ UNCHANGED resp
    /\ UNCHANGED <<store, nIds, createReq, createResp>>
    /\ Observe

ViewDel(p) ==
    /\ pc[p] = "del" /\ req[p].route = "html"
    /\ store' = kvDel(store, req[p].id)
    /\ resp' = [resp EXCEPT ![p] = ViewNotFound("Expired")]
    /\ pc' = [pc EXCEPT ![p] = "done"]
    /\ UNCHANGED <<nIds, createReq, createResp, req, paste>>
    /\ Observe

ViewSet(p) ==
    /\ pc[p] = "set" /\ req[p].route = "html"
    /\ store' = kvSet(store, req[p].id, paste[p])
    /\ resp' = [resp EXCEPT ![p] = ViewOk(paste[p])]
    /\ pc' = [pc EXCEPT ![p] = "done"]
    /\ UNCHANGED <<nIds, createReq, createResp, req, paste>>
    /\ Observe

\* ----------------------------------------------------------- specification
Init ==
    /\ store = << >>
    /\ nIds = 0
    /\ createReq = [data |-> [content |-> Undefined, ttl_seconds |-> Undefined,
                              max_views |-> Undefined], now |-> 0]
    /\ createResp = NoResp
    /\ pc = [p \in Procs |-> "idle"]
    /\ req = [p \in Procs |-> NoReq]
    /\ paste = [p \in Procs |-> Null]
    /\ resp = [p \in Procs |-> NoResp]
    /\ exhausted = {}

\* request bodies of the concurrent specification
Bodies ==
    [content : {Str(<<"a">>), Str(<<" ">>)},
     ttl_seconds : {Undefined} \cup {Num(n) : n \in 1..MaxTTL},
     max_views : {Undefined} \cup {Num(n) : n \in 0..MaxMaxViews}]

Next ==
    \/ \E data \in Bodies : nIds < MaxCreates /\ createPaste(data, StartTime)
    \/ \E p \in Procs, id \in Ids, t \in Clock : FetchGet(p, id, t)
    \/ \E p \in Procs : FetchDel(p)
    \/ \E p \in Procs : FetchSet(p)
    \/ \E p \in Procs, id \in Ids, t \in Clock : ViewGet(p, id, t)
    \/ \E p \in Procs : ViewDel(p)
    \/ \E p \in Procs : ViewSet(p)

Spec == Init /\ [][Next]_vars

\* -------------------------------------------- sequential specification
\* read requests that do not overlap: a request begins only when every
\* other one is idle or done
Quiet(p) == \A q \in Procs \ {p} : pc[q] \in {"idle", "done"}

BodiesSeq ==
    [content : {Str(<<" ", "<">>), Str(<<" ">>)},
     ttl_seconds : {Undefined} \cup {Num(n) : n \in 1..MaxTTL},
     max_views : {Undefined} \cup {Num(n) : n \in 1..MaxMaxViews}]

NextSeq ==
    \/ \E data \in BodiesSeq, t \in Clock :
           /\ nIds < MaxCreates
           /\ \A q \in Procs : pc[q] \in {"idle", "done"}
           /\ createPaste(data, t)
    \/ \E p \in Procs, id \in Ids, t \in Clock : Quiet(p) /\ FetchGet(p, id, t)
    \/ \E p \in Procs : FetchDel(p)
    \/ \E p \in Procs : FetchSet(p)
    \/ \E p \in Procs, id \in Ids, t \in Clock : Quiet(p) /\ ViewGet(p, id, t)
    \/ \E p \in Procs : ViewDel(p)
    \/ \E p \in Procs : ViewSet(p)

SpecSeq == Init /\ [][NextSeq]_vars

\* ------------------------------------------------ create-only specification
\* request bodies of every shape createPaste tells apart
Contents ==
    {Undefined, Num(5), Str(<<>>), Str(<<" ">>), Str(<<"a">>), Str(<<" ", "<">>)}

Counts(max) ==
    {Undefined, Null, Str(<<"1">>), NonInt(1), Num(0 - 1)}
    \cup {Num(n) : n \in 0..max}

BodiesAll ==
    [content : Contents, ttl_seconds : Counts(MaxTTL), max_views : Counts(MaxMaxViews)]

\* a rejected request leaves nothing behind but its own response, so the
\* requests that follow one are taken from the state before it
NextCreate ==
    \E data \in BodiesAll, t \in Clock :
        nIds < MaxCreates /\ createResp.status # 400 /\ createPaste(data, t)

SpecCreate == Init /\ [][NextCreate]_vars

\* --------------------------------------------------- two-paste specification
\* interleaved reads of two pastes with different contents
PairProcs == 1..NumPairProcs

BodiesPair ==
    [content : {Str(<<"a">>), Str(<<"<">>)},
     ttl_seconds : {Undefined} \cup {Num(n) : n \in 1..MaxTTL},
     max_views : {Undefined} \cup {Num(n) : n \in 1..MaxMaxViews}]

NextPair ==
    \/ \E data \in BodiesPair : createPaste(data, StartTime)
    \/ \E p \in PairProcs, id \in 1..MaxIds, t \in Clock : FetchGet(p, id, t)
    \/ \E p \in PairProcs : FetchDel(p)
    \/ \E p \in PairProcs : FetchSet(p)
    \/ \E p \in PairProcs, id \in 1..MaxIds, t \in Clock : ViewGet(p, id, t)
    \/ \E p \in PairProcs : ViewDel(p)
    \/ \E p \in PairProcs : ViewSet(p)

SpecPair == Init /\ [][NextPair]_vars

TypeOK ==
    /\ nIds \in 0..MaxIds
    /\ DOMAIN store \subseteq 1..MaxIds
    /\ exhausted \subseteq 1..MaxIds
    /\ \A p \in Procs : pc[p] \in {"idle", "del", "set", "done"}

\* ------------------------------------------------------------------ claims
\* vocabulary of the claims, over the requests' records
Found(p) == paste[p] # Null

\* the request's clock is at or past the expiry instant of the record it read
Breached(p) ==
    /\ paste[p].ttl_seconds # Null
    /\ req[p].now >= paste[p].createdAt + paste[p].ttl_seconds.v * 1000

Succeeded(p) == pc[p] = "done" /\ resp[p].status = 200

\* the error message of a 404 response
ErrorOf(p) == IF req[p].route = "api" THEN resp[p].json.error ELSE resp[p].body

\* p takes its kv.get in this step
Begins(p) == pc[p] = "idle" /\ pc'[p] # "idle"

\* C1: in every reachable state of the interleaved handlers, every stored
\* record with max_views set has views <= max_views.
C1_ViewsWithinLimit ==
    \A id \in DOMAIN store :
        store[id].max_views # Null => store[id].views <= store[id].max_views.v

\* a record at its limit that has been served more often than the limit
C1_Witness ==
    \E id \in DOMAIN store :
        /\ store[id].max_views # Null
        /\ store[id].views = store[id].max_views.v
        /\ Cardinality({p \in Procs : Succeeded(p) /\ req[p].id = id})
               > store[id].max_views.v

\* the successful requests on p's id among the requests before p
SuccBefore(p) ==
    Cardinality({q \in 1..(p - 1) : req[q].id = req[p].id /\ resp[q].status = 200})

\* C2: when reads do not overlap, of the reads that find a record with
\* max_views = N before its expiry exactly the first N succeed and every later
\* one is answered 404; the k-th success returns remaining_views = N - k.
C2_SequentialViews ==
    \A p \in Procs :
        (pc[p] = "done" /\ Found(p) /\ paste[p].max_views # Null /\ ~Breached(p))
        => LET N == paste[p].max_views.v
               k == SuccBefore(p)
           IN  IF k < N
               THEN /\ resp[p].status = 200
                    /\ req[p].route = "api"
                       => resp[p].json.remaining_views = Num(N - (k + 1))
               ELSE resp[p].status = 404

\* N successes, the last returning 0, and then a rejected read
C2_Witness ==
    \E p, q \in Procs :
        /\ q < p /\ pc[p] = "done" /\ req[q].id = req[p].id
        /\ Found(p) /\ paste[p].max_views = Num(MaxMaxViews)
        /\ SuccBefore(p) = MaxMaxViews
        /\ resp[p].status = 404
        /\ Succeeded(q) /\ req[q].route = "api"
        /\ resp[q].json.remaining_views = Num(0)

\* C3: a read of a record with ttl_seconds = T and views remaining goes on to
\* succeed when its clock is createdAt + T*1000 - 1; when its clock is
\* createdAt + T*1000 it deletes the key and answers 404, and the key is
\* absent from the store right after.
C3_TtlBoundary ==
    [][\A p \in Procs :
         /\ (Begins(p) /\ req'[p].id \in DOMAIN store
                /\ store[req'[p].id].ttl_seconds # Null)
            => LET r == store[req'[p].id]
                   expiresAt == r.createdAt + r.ttl_seconds.v * 1000
               IN  /\ (req'[p].now = expiresAt - 1
                          /\ (r.max_views = Null \/ r.views < r.max_views.v))
                      => pc'[p] = "set"
                   /\ req'[p].now = expiresAt => pc'[p] = "del"
         /\ (pc[p] = "set" /\ pc'[p] = "done") => resp'[p].status = 200
         /\ (pc[p] = "del" /\ pc'[p] = "done")
            => resp'[p].status = 404 /\ req[p].id \notin DOMAIN store'
      ]_vars

\* one read succeeded a millisecond before the expiry, one was rejected at it
C3_Witness ==
    \E p, q \in Procs :
        /\ Succeeded(p) /\ paste[p].ttl_seconds # Null
        /\ req[p].now = paste[p].createdAt + paste[p].ttl_seconds.v * 1000 - 1
        /\ pc[q] = "done" /\ req[q].id = req[p].id /\ Found(q)
        /\ req[q].now = paste[q].createdAt + paste[q].ttl_seconds.v * 1000
        /\ resp[q].status = 404
        /\ req[q].id \notin DOMAIN store

\* C4: the read-check-increment-write race is open: a read that gets a
\* max_views = 1 record with views = 0 before its expiry passes the limit check,
\* and its later set writes its own record and answers 200 with the content
\* whatever the store holds by then; so two overlapping reads both succeed.
C4_RaceOpen ==
    [][\A p \in Procs :
         /\ (Begins(p) /\ req'[p].id \in DOMAIN store
                /\ store[req'[p].id].max_views = Num(1)
                /\ store[req'[p].id].views = 0
                /\ ~(/\ store[req'[p].id].ttl_seconds # Null
                     /\ req'[p].now >= store[req'[p].id].createdAt
                                       + store[req'[p].id].ttl_seconds.v * 1000))
            => pc'[p] = "set" /\ paste'[p].views = 1
         /\ (pc[p] = "set" /\ pc'[p] = "done")
            => /\ resp'[p].status = 200
               /\ store'[req[p].id] = paste[p]
               /\ req[p].route = "api" => resp'[p].json.content = paste[p].content
      ]_vars

\* two reads of one max_views = 1 record both succeeded, each having written
\* views = 1
C4_Witness ==
    \E p, q \in Procs :
        /\ p # q /\ Succeeded(p) /\ Succeeded(q) /\ req[p].id = req[q].id
        /\ req[p].route = "api" /\ req[q].route = "api"
        /\ paste[p].max_views = Num(1) /\ paste[q].max_views = Num(1)
        /\ paste[p].views = 1 /\ paste[q].views = 1
        /\ resp[p].json.content = resp[q].json.content

\* C5: once a read has deleted a key because of TTL expiry, the key is never
\* in the store again.
C5_DeletionTerminal ==
    \A p \in Procs :
        (pc[p] = "done" /\ Found(p) /\ Breached(p)) => req[p].id \notin DOMAIN store

\* C6: once the stored record of an id has reached views >= max_views, no read
\* of that id that starts afterwards succeeds.
C6_ExhaustedTerminal ==
    [][\A p \in Procs :
         (Begins(p) /\ req'[p].id \in exhausted) => pc'[p] # "set"
      ]_vars

\* p is answered 404 in this step
Rejected(p) == pc[p] # "done" /\ pc'[p] = "done" /\ resp'[p].status = 404

\* C7 as stated: a read answered 404 leaves the store as it was.
C7_NotFoundPure == [][\A p \in Procs : Rejected(p) => store' = store]_vars

\* the store holds for p's id what p's rejected read left there
StoreAsLeft(p) ==
    IF Found(p) /\ ~Breached(p)
    THEN req[p].id \in DOMAIN store /\ store[req[p].id] = paste[p]
    ELSE req[p].id \notin DOMAIN store

\* C7 amended: a read answered 404 for a missing id or an exhausted record
\* leaves the store unchanged, one answered 404 for an expired record removes
\* that key and nothing else; a repetition of the read (same id, same clock) on
\* the store as the read left it is answered 404 again.
C7_NotFoundIdempotent ==
    [][\A p \in Procs :
         /\ Rejected(p)
            => IF pc[p] = "del"
               THEN /\ DOMAIN store' = DOMAIN store \ {req[p].id}
                    /\ \A k \in DOMAIN store' : store'[k] = store[k]
               ELSE store' = store
         /\ \A q \in Procs \ {p} :
              (/\ pc[p] = "done" /\ resp[p].status = 404
               /\ Begins(q)
               /\ req'[q].id = req[p].id /\ req'[q].now = req[p].now
               /\ StoreAsLeft(p))
              => pc'[q] = "done" /\ resp'[q].status = 404
      ]_vars

\* an expired read removed the key and its repetition was answered 404
C7_Witness ==
    \E p, q \in Procs :
        /\ p < q /\ pc[p] = "done" /\ pc[q] = "done"
        /\ Found(p) /\ Breached(p) /\ resp[p].status = 404
        /\ req[q].id = req[p].id /\ req[q].now = req[p].now
        /\ ~Found(q) /\ resp[q].status = 404
        /\ req[p].id \notin DOMAIN store

FreshFor(p) ==
    /\ createResp.status = 201
    /\ \A q \in Procs \ {p} :
           pc[q] = "idle" \/ req[q].id # createResp.id \/ ~Found(q)

\* p reads the created id at the clock of the create request
ReadsCreated(r) ==
    r.route = "api" /\ r.id = createResp.id /\ r.now = createReq.now

\* C9: a create with valid arguments at clock t followed by one API read of
\* the returned id at clock t, nothing in between, succeeds and returns exactly
\* the content passed to the create.
C9_RoundTrip ==
    [][\A p \in Procs :
         /\ (FreshFor(p) /\ Begins(p) /\ ReadsCreated(req'[p]))
            => pc'[p] = "set"
         /\ (FreshFor(p) /\ pc[p] = "set" /\ pc'[p] = "done" /\ ReadsCreated(req[p]))
            => /\ resp'[p].status = 200
               /\ resp'[p].json.content = createReq.data.content
      ]_vars

\* a content with a leading space and a "<" came back as it was passed
C9_Witness ==
    \E p \in Procs :
        /\ FreshFor(p) /\ Succeeded(p) /\ ReadsCreated(req[p])
        /\ createReq.data.content = Str(<<" ", "<">>)
        /\ resp[p].json.content = Str(<<" ", "<">>)
        /\ createReq.data.ttl_seconds # Undefined
        /\ createReq.data.max_views # Undefined

\* a create request is handled in this step
Creates == createReq' # createReq \/ createResp' # createResp \/ nIds' # nIds

\* C10: a create answered with a validation error leaves the store unchanged;
\* any other create is answered 201 and its whole store effect is one set, under
\* a new key, of the complete record with views = 0 and createdAt = its clock.
C10_CreateAllOrNothing ==
    [][Creates
       => IF createResp'.status = 400
          THEN store' = store
          ELSE /\ createResp'.status = 201
               /\ createResp'.id \notin DOMAIN store
               /\ DOMAIN store' = DOMAIN store \cup {createResp'.id}
               /\ \A k \in DOMAIN store : store'[k] = store[k]
               /\ store'[createResp'.id] =
                      [content |-> createReq'.data.content,
                       createdAt |-> createReq'.now,
                       ttl_seconds |-> IF createReq'.data.ttl_seconds = Undefined
                                       THEN Null ELSE createReq'.data.ttl_seconds,
                       max_views |-> IF createReq'.data.max_views = Undefined
                                     THEN Null ELSE createReq'.data.max_views,
                       views |-> 0]
      ]_vars

\* a create rejected by the last check, max_views, left the store empty
C10_Witness ==
    /\ createResp.status = 400
    /\ createResp.error = "Invalid max_views"
    /\ createReq.data.content = Str(<<" ", "<">>)
    /\ createReq.data.ttl_seconds = Num(MaxTTL)
    /\ createReq.now > StartTime
    /\ store = << >>

\* a string with a character that is not white space
NonBlankString(x) == x.t = "string" /\ \E i \in 1..Len(x.s) : x.s[i] # " "

\* a count that is present in the body and is not an integer >= 1
BadCount(x) ==
    /\ x # Undefined
    /\ ~(x.t = "number" /\ "frac" \notin DOMAIN x /\ x.v >= 1)

\* C11: the answer to a create is decided by the first failing check in the
\* order content, ttl_seconds, max_views: a content that is not a non-blank
\* string gives "Invalid content" whatever the counts are; otherwise a present
\* ttl_seconds that is 0, negative or no integer gives "Invalid ttl_seconds"
\* whatever max_views is; otherwise such a max_views gives "Invalid max_views";
\* otherwise the create succeeds.
C11_FirstFailingCheck ==
    createResp.status # 0
    => LET data == createReq.data IN
       IF ~NonBlankString(data.content)
       THEN createResp.status = 400 /\ createResp.error = "Invalid content"
       ELSE IF BadCount(data.ttl_seconds)
       THEN createResp.status = 400 /\ createResp.error = "Invalid ttl_seconds"
       ELSE IF BadCount(data.max_views)
       THEN createResp.status = 400 /\ createResp.error = "Invalid max_views"
       ELSE createResp.status = 201

\* both counts are bad and the answer names ttl_seconds
C11_Witness ==
    /\ createResp.status = 400
    /\ createResp.error = "Invalid ttl_seconds"
    /\ NonBlankString(createReq.data.content)
    /\ createReq.data.ttl_seconds = NonInt(1)
    /\ createReq.data.max_views = Num(0)

\* C12: a key leaves the store only in the kv.del of a read of that id whose
\* clock is at or past createdAt + ttl_seconds*1000 of the record it read; a
\* read rejected by the view-limit check leaves the store as it is, and so
\* does every step that is not such a kv.del as far as the keys are concerned.
C12_OnlyExpiryDeletes ==
    [][/\ \A id \in DOMAIN store :
            id \notin DOMAIN store'
            => \E p \in Procs :
                   /\ pc[p] = "del" /\ pc'[p] = "done" /\ req[p].id = id
                   /\ Found(p) /\ Breached(p)
       /\ \A p \in Procs :
            (/\ Begins(p) /\ req'[p].id \in DOMAIN store
             /\ ~(/\ store[req'[p].id].ttl_seconds # Null
                  /\ req'[p].now >= store[req'[p].id].createdAt
                                    + store[req'[p].id].ttl_seconds.v * 1000)
             /\ store[req'[p].id].max_views # Null
             /\ store[req'[p].id].views >= store[req'[p].id].max_views.v)
            => pc'[p] = "done" /\ resp'[p].status = 404 /\ store' = store
      ]_vars

\* a read was rejected at the view limit with the record still stored, and a
\* later read past the expiry removed the key
C12_Witness ==
    \E p, q \in Procs :
        /\ p < q /\ pc[p] = "done" /\ pc[q] = "done" /\ req[p].id = req[q].id
        /\ Found(p) /\ ~Breached(p) /\ resp[p].status = 404
        /\ Found(q) /\ Breached(q) /\ resp[q].status = 404
        /\ paste[q].views = paste[p].views
        /\ req[q].id \notin DOMAIN store

\* C13: in every interleaving of creates and reads, a read whose clock is at
\* or past createdAt + ttl_seconds*1000 of the record it read never goes on to
\* kv.set and is never answered 200.
C13_NoSuccessPastTtl ==
    \A p \in Procs :
        (pc[p] # "idle" /\ Found(p) /\ Breached(p))
        => pc[p] \in {"del", "done"} /\ resp[p].status # 200

\* a read past the expiry was rejected while another read of the same paste,
\* begun before the expiry, still has its kv.set to do
C13_Witness ==
    \E p, q \in Procs :
        /\ p # q /\ req[p].id = req[q].id
        /\ pc[q] = "set" /\ ~Breached(q)
        /\ pc[p] = "done" /\ Found(p) /\ Breached(p) /\ resp[p].status = 404

\* the stored record r is at its view limit
AtLimit(r) == r.max_views # Null /\ r.views >= r.max_views.v

\* the clock t is at or past the expiry instant of the stored record r
PastTtl(r, t) == r.ttl_seconds # Null /\ t >= r.createdAt + r.ttl_seconds.v * 1000

\* C14: the TTL check comes before the view-limit check: a read of a stored
\* record that is at its limit and past its TTL goes on to kv.del, which
\* removes the key; a read of a record at its limit before its TTL boundary,
\* or without a TTL, is answered 404 at once and leaves the store unchanged.
C14_TtlBeforeLimit ==
    [][\A p \in Procs :
         /\ (Begins(p) /\ req'[p].id \in DOMAIN store /\ AtLimit(store[req'[p].id]))
            => IF PastTtl(store[req'[p].id], req'[p].now)
               THEN pc'[p] = "del"
               ELSE pc'[p] = "done" /\ resp'[p].status = 404 /\ store' = store
         /\ (pc[p] = "del" /\ pc'[p] = "done") => req[p].id \notin DOMAIN store'
      ]_vars

\* a read that found the record at its limit and past its TTL removed the key
C14_Witness ==
    \E p \in Procs :
        /\ pc[p] = "done" /\ Found(p) /\ Breached(p) /\ AtLimit(paste[p])
        /\ resp[p].status = 404
        /\ req[p].id \notin DOMAIN store

\* p, a read, takes a step
Steps(p) == pc'[p] # pc[p]

\* in this step the record of every id that stays stored keeps its content,
\* createdAt, ttl_seconds and max_views, and a step of a read leaves the
\* records and the presence of all ids but its own as they are
FrameKept ==
    /\ \A id \in DOMAIN store \cap DOMAIN store' :
           /\ store'[id].content = store[id].content
           /\ store'[id].createdAt = store[id].createdAt
           /\ store'[id].ttl_seconds = store[id].ttl_seconds
           /\ store'[id].max_views = store[id].max_views
    /\ \A p \in Procs :
           Steps(p)
           => \A k \in (DOMAIN store \cup DOMAIN store') \ {req'[p].id} :
                  /\ k \in DOMAIN store /\ k \in DOMAIN store'
                  /\ store'[k] = store[k]

\* in this step a read does to the key of its own id nothing but leave it,
\* change the views of its record, or remove it
OwnEffect ==
    \A p \in Procs :
        Steps(p)
        => \/ req'[p].id \notin DOMAIN store'
           \/ /\ req'[p].id \in DOMAIN store
              /\ store'[req'[p].id] =
                     [store[req'[p].id] EXCEPT !.views = store'[req'[p].id].views]

\* C15: a read of id X changes at most the views of X's record, or removes
\* X's key; content, createdAt, ttl_seconds and max_views of a stored record
\* never change, and the records of all other ids are left as they are.
C15_AccessFrame == [][FrameKept /\ OwnEffect]_vars

\* the part of C15 about the other fields and the other ids
C15_FrameOnly == [][FrameKept]_vars

\* the milliseconds since the epoch that an ISO timestamp of 1970-01-01 names
EpochMs(iso) == iso[4] * 3600000 + iso[5] * 60000 + iso[6] * 1000 + iso[7]

\* C16: a successful API read writes the views it read plus 1 and returns
\* remaining_views = null when max_views is unset and otherwise
\* max(0, max_views - the views it wrote), never a negative number, and
\* expires_at = null when ttl_seconds is unset and otherwise the timestamp of
\* createdAt + ttl_seconds*1000; also when reads overlap.
C16_SuccessBody ==
    [][\A p \in Procs :
         /\ (Begins(p) /\ pc'[p] = "set")
            => paste'[p].views = store[req'[p].id].views + 1
         /\ (pc[p] = "set" /\ pc'[p] = "done" /\ req[p].route = "api")
            => LET r == paste[p]
                   j == resp'[p].json
               IN  /\ resp'[p].status = 200
                   /\ store'[req[p].id].views = r.views
                   /\ IF r.max_views = Null
                      THEN j.remaining_views = Null
                      ELSE /\ j.remaining_views.t = "number"
                           /\ j.remaining_views.v >= 0
                           /\ j.remaining_views.v =
                                  (IF r.max_views.v >= r.views
                                   THEN r.max_views.v - r.views ELSE 0)
                   /\ IF r.ttl_seconds = Null
                      THEN j.expires_at = Null
                      ELSE /\ j.expires_at.t = "string"
                           /\ SubSeq(j.expires_at.s, 1, 3) = <<1970, 1, 1>>
                           /\ EpochMs(j.expires_at.s)
                                  = r.createdAt + r.ttl_seconds.v * 1000
      ]_vars

\* two overlapping reads of a paste with both limits were both told the same
\* remaining_views and the expiry instant
C16_Witness ==
    \E p, q \in Procs :
        /\ p # q /\ Succeeded(p) /\ Succeeded(q) /\ req[p].id = req[q].id
        /\ req[p].route = "api" /\ req[q].route = "api"
        /\ paste[p].max_views = Num(MaxMaxViews)
        /\ resp[p].json.remaining_views = Num(MaxMaxViews - 1)
        /\ resp[q].json.remaining_views = Num(MaxMaxViews - 1)
        /\ resp[p].json.expires_at # Null
        /\ EpochMs(resp[p].json.expires_at.s) = StartTime + 1000

\* null or an integer >= 1
NullOrPositiveInt(x) ==
    x = Null \/ (x.t = "number" /\ "frac" \notin DOMAIN x /\ x.v >= 1)

\* C17: every record in the store has a content that is a string with a
\* character other than white space, ttl_seconds null or an integer >= 1,
\* max_views null or an integer >= 1, and views an integer >= 0.
C17_StoredRecordsValid ==
    \A id \in DOMAIN store :
        /\ NonBlankString(store[id].content)
        /\ NullOrPositiveInt(store[id].ttl_seconds)
        /\ NullOrPositiveInt(store[id].max_views)
        /\ store[id].views \in Nat

\* a stored record with a padded content and both counts at their smallest
C17_Witness ==
    \E id \in DOMAIN store :
        /\ store[id].content = Str(<<" ", "<">>)
        /\ store[id].ttl_seconds = Num(1)
        /\ store[id].max_views = Num(1)

\* the stored record r has neither a TTL nor a view limit
Unlimited(r) == r.ttl_seconds = Null /\ r.max_views = Null

\* C18: a record created with neither ttl_seconds nor max_views stays in the
\* store, and every read of its id, at any clock and in any interleaving, goes
\* on to kv.set and is answered 200, by the API with remaining_views = null
\* and expires_at = null.
C18_UnlimitedAlwaysServed ==
    [][\A id \in DOMAIN store :
         Unlimited(store[id])
         => /\ id \in DOMAIN store' /\ Unlimited(store'[id])
            /\ \A p \in Procs :
                 /\ (Begins(p) /\ req'[p].id = id) => pc'[p] = "set"
                 /\ (pc[p] = "set" /\ pc'[p] = "done" /\ req[p].id = id)
                    => /\ resp'[p].status = 200
                       /\ req[p].route = "api"
                          => /\ resp'[p].json.remaining_views = Null
                             /\ resp'[p].json.expires_at = Null
                             /\ resp'[p].json.content = store[id].content
      ]_vars

\* every request slot read one unlimited paste, at the first and at the last
\* clock value, and all were served
C18_Witness ==
    \E id \in DOMAIN store :
        /\ Unlimited(store[id])
        /\ store[id].views >= 2
        /\ \A p \in Procs : Succeeded(p) /\ req[p].id = id
        /\ \E p, q \in Procs :
               /\ req[p].now = StartTime /\ req[q].now = StartTime + MaxTTL * 1000
               /\ req[p].route = "api" /\ req[q].route = "html"

\* C19: the views counter of a stored record never decreases: in every step,
\* interleaved reads of one id included, the views stored after the step are
\* at least the views stored before it while the record stays in the store.
C19_ViewsMonotone ==
    [][\A id \in DOMAIN store \cap DOMAIN store' :
         store'[id].views >= store[id].views]_vars

\* the decision both routes are held to, from the value kv.get returned and
\* the request's clock alone
Decision(got, t) ==
    IF got = Null THEN "not found"
    ELSE IF got.ttl_seconds # Null /\ t >= got.createdAt + got.ttl_seconds.v * 1000
    THEN "expired"
    ELSE IF got.max_views # Null /\ got.views >= got.max_views.v
    THEN "exhausted"
    ELSE "success"

\* C20: GET /p/:id and GET /api/pastes/:id follow one access protocol: for
\* every stored record and clock value a request of either route makes the
\* decision that depends on the record and the clock only (not found, expired,
\* exhausted, success) and applies the same store effect (none, kv.del, or
\* kv.set of the record read with views + 1).
C20_SameProtocol ==
    [][\A p \in Procs :
         /\ Begins(p) =>
              LET got == kvGet(store, req'[p].id)
                  d == Decision(got, req'[p].now)
              IN /\ store' = store
                 /\ d = "not found" =>
                      /\ pc'[p] = "done" /\ resp'[p].status = 404
                      /\ (ErrorOf(p))' = "Not found"
                 /\ d = "expired" => pc'[p] = "del"
                 /\ d = "exhausted" =>
                      /\ pc'[p] = "done" /\ resp'[p].status = 404
                      /\ (ErrorOf(p))' = "View limit exceeded"
                 /\ d = "success" =>
                      /\ pc'[p] = "set"
                      /\ paste'[p] = [got EXCEPT !.views = @ + 1]
         /\ (pc[p] = "del" /\ pc'[p] # "del") =>
              /\ store' = kvDel(store, req[p].id)
              /\ pc'[p] = "done" /\ resp'[p].status = 404
              /\ (ErrorOf(p))' = "Expired"
         /\ (pc[p] = "set" /\ pc'[p] # "set") =>
              /\ store' = kvSet(store, req[p].id, paste[p])
              /\ pc'[p] = "done" /\ resp'[p].status = 200
      ]_vars

\* one API read and one page view of the same paste, one after the other, each
\* took one view from the shared counter; a third request of each route found
\* the paste exhausted
C20_Witness ==
    \E p, q, a, h \in Procs :
        /\ req[p].route = "api" /\ req[q].route = "html"
        /\ req[p].id = req[q].id
        /\ Succeeded(p) /\ Succeeded(q)
        /\ {paste[p].views, paste[q].views} = {1, 2}
        /\ req[p].id \in DOMAIN store /\ store[req[p].id].views = 2
        /\ req[a].route = "api" /\ req[h].route = "html"
        /\ pc[a] = "done" /\ pc[h] = "done"
        /\ resp[a].status = 404 /\ resp[h].status = 404
        /\ ErrorOf(a) = "View limit exceeded" /\ ErrorOf(h) = "View limit exceeded"
====
